---- MODULE Spec2Model ----
(***************************************************************************)
(* Model of the SBOM enrichment engine, src/src/mobster/sbom/enrich.py.    *)
(*                                                                         *)
(* Python values are modelled as follows.                                  *)
(*   dict          a function whose DOMAIN is the set of keys present      *)
(*   list          a sequence                                              *)
(*   str           a string                                                *)
(*   None          None for a scalar (a field name), NoneObj for an object *)
(*                 (a purl, a returned record)                             *)
(*   raise         every function returns a record with a field raised,    *)
(*                 "none" or the name of the exception; the other fields   *)
(*                 hold the state of the objects it mutated in place up to *)
(*                 the point where it returned or raised                   *)
(***************************************************************************)
EXTENDS Integers, Sequences, FiniteSets, TLC

VARIABLES
    pc,          \* "start" before the call, "done" after it returned or raised
    op,          \* the function being called
    enrichFunc,  \* general_enrich: the merge function it is given, else None
    tgt,         \* the target argument as it was before the call
    inc,         \* the incoming argument as it was before the call
    after,       \* the target object after the call (it is mutated in place)
    ret,         \* the returned value, NoneObj when the call raised
    raised,      \* "none" or the exception that left the call
    calls,       \* general_enrich: the <<target index, incoming index>> of each enrichFunc call
    generalMap,  \* content of enrich_tools/SPDXmappings2.3.json
    aiMap,       \* content of enrich_tools/SPDXmappingAI.json
    now          \* what datetime.now().strftime(...) yields during the call

vars == <<pc, op, enrichFunc, tgt, inc, after, ret, raised, calls, generalMap, aiMap, now>>

-----------------------------------------------------------------------------
(* Bounds *)

MaxProps == 2      \* longest model-card property list
MaxTargets == 2    \* longest target collection
MaxIncoming == 3   \* longest incoming collection
MaxTools == 2      \* longest tool / creator list

-----------------------------------------------------------------------------
(* Python values *)

None == "None"
NoneObj == [None |-> TRUE]

EmptyDict == <<>>

\* d[k] = v
DictSet(d, k, v) == [x \in (DOMAIN d) \cup {k} |-> IF x = k THEN v ELSE d[x]]

\* all sequences over S of length lo..hi
SeqsOf(S, lo, hi) == UNION {[1..n -> S] : n \in lo..hi}

\* the positions of a sequence
Indices(s) == 1..Len(s)

Max(S) == CHOOSE m \in S : \A x \in S : x <= m

-----------------------------------------------------------------------------
(* SPDXEnricher.enrichPackage and what it calls *)

prefer_original ==
    {"bomFormat", "serialNumber", "specVersion", "external_references",
     "downloadLocation", "version"}

\* mappings is the loaded table: fieldName -> its SPDX_Equivalent (None for null)
getFieldName(mappings, fieldName) ==
    IF fieldName \in DOMAIN mappings THEN mappings[fieldName] ELSE None

\* Python truthiness of what getFieldName returns
Truthy(x) == x # None /\ x # ""

makeAnnotationFromField(clock, field, value) ==
    [annotationDate |-> clock,
     annotationType |-> "OTHER",
     annotator |-> "Tool: OWASP AIBOM Generator",
     comment |-> field \o " : " \o value]

\* One iteration of the loop over modelCard['properties']; st = [package, annotations].
enrichPackageStep(self, st, field) ==
    LET fieldName == field.name
        fieldValue == field.value
        spdxFieldName == getFieldName(self.generalMap, fieldName)
        spdxAIFieldName == getFieldName(self.aiMap, fieldName)
    IN  IF fieldName \in prefer_original
        THEN st
        ELSE IF Truthy(spdxFieldName) /\ ~(fieldName \in DOMAIN st.package)
        THEN [st EXCEPT !.package = DictSet(st.package, spdxFieldName, fieldValue)]
        ELSE IF Truthy(spdxAIFieldName)
        THEN [st EXCEPT !.annotations =
                 Append(@, makeAnnotationFromField(self.now, spdxAIFieldName, fieldValue))]
        ELSE st

RECURSIVE enrichPackageLoop(_, _, _, _)
enrichPackageLoop(self, st, properties, i) ==
    IF i > Len(properties)
    THEN st
    ELSE enrichPackageLoop(self, enrichPackageStep(self, st, properties[i]), properties, i + 1)

\* Returns [target: the package object after the call, ret, raised].
enrichPackage(self, package, component) ==
    IF "modelCard" \in DOMAIN component
    THEN LET modelCard == component.modelCard
         IN  IF "properties" \notin DOMAIN modelCard
             THEN [target |-> package, ret |-> NoneObj, raised |-> "KeyError"]
             ELSE LET st == enrichPackageLoop(self,
                                [package |-> package, annotations |-> <<>>],
                                modelCard.properties, 1)
                  IN  IF "annotations" \notin DOMAIN st.package
                      THEN [target |-> st.package, ret |-> NoneObj, raised |-> "KeyError"]
                      ELSE LET p == DictSet(st.package, "annotations",
                                            st.package.annotations \o st.annotations)
                           IN  [target |-> p, ret |-> p, raised |-> "none"]
    ELSE [target |-> package, ret |-> package, raised |-> "none"]

-----------------------------------------------------------------------------
(* CycloneDXEnricher.mergeModelCards and convertToModelCard *)

\* [p for p in newProperties if not p in targetProperties]
NotIn(newProperties, targetProperties) ==
    SelectSeq(newProperties,
              LAMBDA p : ~(\E k \in Indices(targetProperties) : targetProperties[k] = p))

\* Returns [target: the target component object after the call, ret, raised].
mergeModelCards(target_component, incoming_component) ==
    IF ~("modelCard" \in DOMAIN target_component)
    THEN IF "modelCard" \notin DOMAIN incoming_component
         THEN [target |-> target_component, ret |-> NoneObj, raised |-> "KeyError"]
         ELSE LET t == DictSet(target_component, "modelCard", incoming_component.modelCard)
              IN  [target |-> t, ret |-> t, raised |-> "none"]
    ELSE IF "modelCard" \notin DOMAIN incoming_component
         THEN [target |-> target_component, ret |-> NoneObj, raised |-> "KeyError"]
    ELSE IF "modelParameters" \notin DOMAIN incoming_component.modelCard
         THEN [target |-> target_component, ret |-> NoneObj, raised |-> "KeyError"]
    ELSE LET card1 == DictSet(target_component.modelCard, "modelParameters",
                              incoming_component.modelCard.modelParameters)
             \* newModelCard is the target's own modelCard object: the assignment
             \* above has changed the target already
             t1 == DictSet(target_component, "modelCard", card1)
             newProperties == IF ~("properties" \in DOMAIN card1) THEN <<>>
                              ELSE card1.properties
         IN  IF "properties" \notin DOMAIN incoming_component.modelCard
             THEN [target |-> t1, ret |-> NoneObj, raised |-> "KeyError"]
             ELSE LET targetProperties == incoming_component.modelCard.properties
                      card2 == DictSet(card1, "properties",
                                   newProperties \o NotIn(newProperties, targetProperties))
                      t2 == DictSet(target_component, "modelCard", card2)
                  IN  [target |-> t2, ret |-> t2, raised |-> "none"]

convertToModelCard(target_component, incoming_component) ==
    IF "data" \notin DOMAIN incoming_component
    THEN [target |-> target_component, ret |-> NoneObj, raised |-> "KeyError"]
    ELSE mergeModelCards(target_component,
             DictSet(incoming_component, "modelCard",
                     [modelParameters |-> EmptyDict,
                      properties |-> incoming_component.data]))

-----------------------------------------------------------------------------
(* Package URLs and the three wrappers (SBOMItem) *)

\* A purl string is modelled by its parts, <<type, name>> or <<type, name, version>>,
\* and the parsed PackageURL by a record of its six fields.
try_parse_purl(purl_str) ==
    IF Len(purl_str) = 2
    THEN [type |-> purl_str[1], namespace |-> None, name |-> purl_str[2],
          version |-> None, qualifiers |-> None, subpath |-> None]
    ELSE IF Len(purl_str) = 3
    THEN [type |-> purl_str[1], namespace |-> None, name |-> purl_str[2],
          version |-> purl_str[3], qualifiers |-> None, subpath |-> None]
    ELSE NoneObj

\* SBOMElement.purl
SBOMElement_purl(data) ==
    IF "purl" \in DOMAIN data /\ data.purl # <<>>
    THEN try_parse_purl(data.purl)
    ELSE NoneObj

\* CDXComponent.purl
CDXComponent_purl(data) ==
    IF "purl" \in DOMAIN data THEN try_parse_purl(data.purl) ELSE NoneObj

\* SPDXPackage.purl: the purl among the package's external references
SPDXPackage_purl(data) ==
    LET refs == IF "externalRefs" \in DOMAIN data THEN data.externalRefs ELSE <<>>
        purls == SelectSeq(refs, LAMBDA r : r.referenceType = "purl")
    IN  IF purls = <<>> THEN NoneObj ELSE try_parse_purl(purls[1].referenceLocator)

wrap_as_element(items) == [i \in Indices(items) |-> [kind |-> "element", data |-> items[i]]]
wrap_as_cdx(items) == [i \in Indices(items) |-> [kind |-> "cdx", data |-> items[i]]]
wrap_as_spdx(items) == [i \in Indices(items) |-> [kind |-> "spdx", data |-> items[i]]]

purl(item) ==
    CASE item.kind = "element" -> SBOMElement_purl(item.data)
      [] item.kind = "cdx" -> CDXComponent_purl(item.data)
      [] item.kind = "spdx" -> SPDXPackage_purl(item.data)

unwrap(item) == item.data

-----------------------------------------------------------------------------
(* The Matcher/Merge Driver: purl_without_version, all_purls, general_enrich *)

\* the purl as it is, version kept
purl_keep_version(p) == p

\* Called on None (NoneObj) it raises AttributeError: the callers test for that.
purl_without_version(p) == [p EXCEPT !.version = None]

\* Returns [raised, index]: index maps each version-stripped purl to the position
\* of the last component that has it.
all_purls(sbom) ==
    IF \E i \in Indices(sbom) : purl(sbom[i]) = NoneObj
    THEN [raised |-> "AttributeError", index |-> EmptyDict]
    ELSE [raised |-> "none",
          index |-> [k \in {purl_without_version(purl(sbom[i])) : i \in Indices(sbom)} |->
                        Max({i \in Indices(sbom) : purl_without_version(purl(sbom[i])) = k})]]

\* enrichFunc(component_to_enrich.unwrap(), element.unwrap())
Apply(f, self, target, incoming) ==
    CASE f = "mergeModelCards" -> mergeModelCards(target, incoming)
      [] f = "convertToModelCard" -> convertToModelCard(target, incoming)
      [] f = "enrichPackage" -> enrichPackage(self, target, incoming)

\* the new package added at the end instead of replacing the matched one
splice_append(target_packages, index, newPackage) ==
    Append(target_packages, newPackage)

\* target_packages[index] = newPackage
splice(target_packages, index, newPackage) ==
    [target_packages EXCEPT ![index] = newPackage]

\* One iteration of the loop over incoming_sbom; st = [target_packages, calls, raised].
\* target_packages[i] is the very object target_sbom[i].unwrap() returns, so what
\* enrichFunc does to its first argument in place shows in target_packages[i].
general_enrichStep(f, self, target_purls, st, incoming_sbom, j) ==
    LET element == incoming_sbom[j]
    IN  IF purl(element) = NoneObj
        THEN [st EXCEPT !.raised = "AttributeError"]
        ELSE IF purl_without_version(purl(element)) \in DOMAIN target_purls
        THEN LET index == target_purls[purl_without_version(purl(element))]
                 r == Apply(f, self, st.target_packages[index], unwrap(element))
                 st1 == [st EXCEPT !.target_packages[index] = r.target,
                                   !.calls = Append(@, <<index, j>>)]
             IN  IF r.raised # "none"
                 THEN [st1 EXCEPT !.raised = r.raised]
                 ELSE IF r.ret # EmptyDict
                 THEN [st1 EXCEPT !.target_packages = splice(@, index, r.ret)]
                 ELSE st1
        ELSE st

RECURSIVE general_enrichLoop(_, _, _, _, _, _)
general_enrichLoop(f, self, target_purls, st, incoming_sbom, j) ==
    IF j > Len(incoming_sbom) \/ st.raised # "none"
    THEN st
    ELSE general_enrichLoop(f, self, target_purls,
             general_enrichStep(f, self, target_purls, st, incoming_sbom, j),
             incoming_sbom, j + 1)

\* Returns [target: the target records after the call, ret, raised, calls].
general_enrich(f, self, target_sbom, incoming_sbom) ==
    LET target_purls == all_purls(target_sbom)
        records == [i \in Indices(target_sbom) |-> unwrap(target_sbom[i])]
    IN  IF target_purls.raised # "none"
        THEN [target |-> records, ret |-> <<>>, raised |-> target_purls.raised,
              calls |-> <<>>]
        ELSE LET st == general_enrichLoop(f, self, target_purls.index,
                           [target_packages |-> records, calls |-> <<>>,
                            raised |-> "none"],
                           incoming_sbom, 1)
             IN  [target |-> st.target_packages,
                  ret |-> IF st.raised = "none" THEN st.target_packages ELSE <<>>,
                  raised |-> st.raised,
                  calls |-> st.calls]

-----------------------------------------------------------------------------
(* The enrichers: CycloneDXEnricher.enrich, SPDXEnricher.enrich, _create_enricher *)

\* merge._detect_sbom_type: the schema tag of a document, ValueError when it has none
_detect_sbom_type(sbom) ==
    IF "bomFormat" \in DOMAIN sbom THEN [raised |-> "none", type |-> "cyclonedx"]
    ELSE IF "spdxVersion" \in DOMAIN sbom THEN [raised |-> "none", type |-> "spdx"]
    ELSE [raised |-> "ValueError", type |-> None]

Raise(target_sbom, exception) ==
    [target |-> target_sbom, ret |-> NoneObj, raised |-> exception, calls |-> <<>>]

\* target_sbom["components"] = general_enrich(...): g is what general_enrich gave.
\* The records it changed in place are those the document's list holds.
AssignComponents(target_sbom, key, g) ==
    IF g.raised = "none"
    THEN LET t == DictSet(target_sbom, key, g.ret)
         IN  [target |-> t, ret |-> t, raised |-> "none", calls |-> g.calls]
    ELSE [target |-> IF key \in DOMAIN target_sbom
                     THEN DictSet(target_sbom, key, g.target)
                     ELSE target_sbom,
          ret |-> NoneObj, raised |-> g.raised, calls |-> g.calls]

\* target_sbom["metadata"]["tools"]["components"].extend(items)
ExtendTools(target_sbom, items) ==
    [target_sbom EXCEPT !.metadata.tools.components = @ \o items]

CycloneDXEnricher_enrich(self, target_sbom, incoming_sbom) ==
    IF "components" \notin DOMAIN target_sbom
    THEN Raise(target_sbom, "KeyError")
    ELSE
    LET target_components == wrap_as_cdx(target_sbom.components)
        detected == _detect_sbom_type(incoming_sbom)
    IN  IF detected.raised = "ValueError"
        THEN \* except ValueError: treat the enrichment file as json
             IF "components" \notin DOMAIN incoming_sbom
             THEN Raise(target_sbom, "KeyError")
             ELSE AssignComponents(target_sbom, "components",
                      general_enrich("convertToModelCard", self, target_components,
                                     wrap_as_element(incoming_sbom.components)))
        ELSE IF detected.type = "cyclonedx"
        THEN IF "components" \notin DOMAIN incoming_sbom
             THEN Raise(target_sbom, "KeyError")
             ELSE AssignComponents(
                      ExtendTools(target_sbom, incoming_sbom.metadata.tools.components),
                      "components",
                      general_enrich("mergeModelCards", self, target_components,
                                     wrap_as_cdx(incoming_sbom.components)))
        ELSE IF "packages" \notin DOMAIN incoming_sbom
             THEN Raise(target_sbom, "KeyError")
             ELSE \* enrich_from_spdx
                  Raise(target_sbom, "NotImplementedError")

\* only the tools whose "Tool: <name>" is not among the creators yet
addToTools_dedup(creationInfo, tools) ==
    [creationInfo EXCEPT !.creators =
        @ \o SelectSeq([i \in Indices(tools.components) |->
                            "Tool: " \o tools.components[i].name],
                       LAMBDA c : \A k \in Indices(creationInfo.creators) :
                                      creationInfo.creators[k] # c)]

\* Returns creationInfo with "Tool: <name>" appended for each tool component.
addToTools(creationInfo, tools) ==
    [creationInfo EXCEPT !.creators =
        @ \o [i \in Indices(tools.components) |-> "Tool: " \o tools.components[i].name]]

\* d.get(key, [])
GetOrEmpty(d, key) == IF key \in DOMAIN d THEN d[key] ELSE <<>>

SPDXEnricher_enrich(self, target_sbom, incoming_sbom) ==
    LET target_packages == wrap_as_spdx(GetOrEmpty(target_sbom, "packages"))
        detected == _detect_sbom_type(incoming_sbom)
    IN  IF detected.raised = "ValueError"
        THEN Raise(target_sbom, "ValueError")
        ELSE IF detected.type = "cyclonedx"
        THEN AssignComponents(
                 DictSet(target_sbom, "creationInfo",
                         addToTools(target_sbom.creationInfo, incoming_sbom.metadata.tools)),
                 "packages",
                 general_enrich("enrichPackage", self, target_packages,
                                wrap_as_cdx(GetOrEmpty(incoming_sbom, "components"))))
        ELSE \* enrich_from_same_type
             Raise(target_sbom, "NotImplementedError")

\* Which enricher _create_enricher returns for the target document.
_create_enricher(target_sbom) ==
    IF _detect_sbom_type(target_sbom).type = "cyclonedx"
    THEN "CycloneDXEnricher"
    ELSE "SPDXEnricher"

-----------------------------------------------------------------------------
(* Inputs of enrichPackage *)

\* The two mapping tables are files read at run time; these are the contents
\* the model draws them from.
GeneralTables ==
    {[name |-> "name", description |-> "summary"],
     [name |-> "name", description |-> "summary", task |-> "primaryPurpose",
      licenses |-> None]}

AITables ==
    {[task |-> "typeOfModel", name |-> "modelName"],
     [task |-> "typeOfModel", licenses |-> "licenseInfo", energy |-> None]}

Clocks == {"2026-01-01T00:00:00Z"}

PropertyNames == {"version", "name", "description", "task", "licenses", "color"}

PackageProperties == [name : PropertyNames, value : {"X"}]

OldAnnotation ==
    [annotationDate |-> "2020-01-01T00:00:00Z", annotationType |-> "REVIEW",
     annotator |-> "Person: a", comment |-> "old"]

\* SPDX packages: name always, the rest optional
PackageFields ==
    {[name |-> "pkg"]} \cup
    {[name |-> "pkg", summary |-> "S"]} \cup
    {[name |-> "pkg", description |-> "D"]} \cup
    {[name |-> "pkg", summary |-> "S", description |-> "D"]}

PackageAnnotations ==
    {EmptyDict, [annotations |-> <<>>], [annotations |-> <<OldAnnotation>>]}

Packages == {f @@ a : f \in PackageFields, a \in PackageAnnotations}

\* CycloneDX components as enrichPackage sees them
CardComponents ==
    {[name |-> "pkg"]} \cup
    {[name |-> "pkg", modelCard |-> [modelParameters |-> EmptyDict]]} \cup
    {[name |-> "pkg", modelCard |-> [modelParameters |-> EmptyDict, properties |-> ps]] :
        ps \in SeqsOf(PackageProperties, 0, MaxProps)}

Idle ==
    /\ pc = "start"
    /\ after = NoneObj
    /\ ret = NoneObj
    /\ raised = "none"
    /\ calls = <<>>

InitPackage ==
    /\ Idle
    /\ op = "enrichPackage"
    /\ enrichFunc = None
    /\ tgt \in Packages
    /\ inc \in CardComponents
    /\ generalMap \in GeneralTables
    /\ aiMap \in AITables
    /\ now \in Clocks

Self == [generalMap |-> generalMap, aiMap |-> aiMap, now |-> now]

Finish(r) ==
    /\ pc' = "done"
    /\ after' = r.target
    /\ ret' = r.ret
    /\ raised' = r.raised
    /\ UNCHANGED <<op, enrichFunc, tgt, inc, generalMap, aiMap, now>>

EnrichPackageCall ==
    /\ pc = "start"
    /\ op = "enrichPackage"
    /\ Finish(enrichPackage(Self, tgt, inc))
    /\ UNCHANGED calls

NextPackage == EnrichPackageCall

SpecPackage == InitPackage /\ [][NextPackage]_vars

-----------------------------------------------------------------------------
(* Inputs of mergeModelCards and convertToModelCard *)

CardProperties ==
    {[name |-> "task", value |-> "classification"],
     [name |-> "task", value |-> "generation"],
     [name |-> "license", value |-> "mit"]}

ModelParameters == {EmptyDict, [task |-> "classification"]}

ModelCards ==
    {mp @@ pr :
        mp \in {EmptyDict} \cup {[modelParameters |-> m] : m \in ModelParameters},
        pr \in {EmptyDict} \cup
               {[properties |-> ps] : ps \in SeqsOf(CardProperties, 0, MaxProps)}}

CDXComponents ==
    {[name |-> "model"]} \cup {[name |-> "model", modelCard |-> c] : c \in ModelCards}

\* what wrap_as_element hands to convertToModelCard: the generic JSON element
JSONElements ==
    {[name |-> "model"]} \cup
    {[name |-> "model", data |-> ps] : ps \in SeqsOf(CardProperties, 0, MaxProps)}

InitCards ==
    /\ Idle
    /\ \/ op = "mergeModelCards" /\ inc \in CDXComponents
       \/ op = "convertToModelCard" /\ inc \in JSONElements
    /\ enrichFunc = None
    /\ tgt \in CDXComponents
    /\ generalMap = EmptyDict
    /\ aiMap = EmptyDict
    /\ now = None

MergeModelCardsCall ==
    /\ pc = "start"
    /\ op = "mergeModelCards"
    /\ Finish(mergeModelCards(tgt, inc))
    /\ UNCHANGED calls

ConvertToModelCardCall ==
    /\ pc = "start"
    /\ op = "convertToModelCard"
    /\ Finish(convertToModelCard(tgt, inc))
    /\ UNCHANGED calls

NextCards == MergeModelCardsCall \/ ConvertToModelCardCall

SpecCards == InitCards /\ [][NextCards]_vars

-----------------------------------------------------------------------------
(* Inputs of general_enrich, as its three call sites build them *)

PurlRef(p) ==
    [referenceCategory |-> "PACKAGE-MANAGER", referenceType |-> "purl",
     referenceLocator |-> p]

DriverComponents ==
    {[name |-> "foo", purl |-> <<"pypi", "foo", "1.0">>],
     [name |-> "foo", purl |-> <<"pypi", "foo", "2.0">>,
      modelCard |-> [modelParameters |-> [task |-> "classification"],
                     properties |-> <<[name |-> "task", value |-> "classification"]>>]],
     [name |-> "bar", purl |-> <<"pypi", "bar">>,
      modelCard |-> [modelParameters |-> EmptyDict,
                     properties |-> <<[name |-> "description", value |-> "X"]>>]],
     [name |-> "anon",
      modelCard |-> [modelParameters |-> EmptyDict, properties |-> <<>>]]}

\* the incoming CycloneDX components: foo again, in other versions, and a package
\* no target has
IncomingComponents ==
    {[name |-> "foo", purl |-> <<"pypi", "foo", "3.0">>,
      modelCard |-> [modelParameters |-> [task |-> "generation"],
                     properties |-> <<[name |-> "task", value |-> "generation"],
                                      [name |-> "description", value |-> "X"]>>]],
     [name |-> "foo", purl |-> <<"pypi", "foo">>],
     [name |-> "baz", purl |-> <<"pypi", "baz", "1.0">>,
      modelCard |-> [modelParameters |-> EmptyDict,
                     properties |-> <<[name |-> "task", value |-> "classification"]>>]],
     [name |-> "anon",
      modelCard |-> [modelParameters |-> EmptyDict, properties |-> <<>>]]}

DriverElements ==
    {[purl |-> <<"pypi", "foo", "3.0">>,
      data |-> <<[name |-> "task", value |-> "generation"]>>],
     [purl |-> <<"pypi", "baz", "1.0">>, data |-> <<>>],
     [data |-> <<[name |-> "x", value |-> "1"]>>],
     [purl |-> <<"pypi", "foo">>, x |-> "1"]}

DriverPackages ==
    {[name |-> "foo", externalRefs |-> <<PurlRef(<<"pypi", "foo", "1.0">>)>>,
      annotations |-> <<>>],
     [name |-> "foo", externalRefs |-> <<PurlRef(<<"pypi", "foo">>)>>,
      annotations |-> <<OldAnnotation>>, description |-> "D"],
     [name |-> "bar", externalRefs |-> <<PurlRef(<<"pypi", "bar", "2.0">>)>>,
      summary |-> "S"],
     [name |-> "anon", annotations |-> <<>>]}

InitDriver ==
    /\ Idle
    /\ op = "general_enrich"
    /\ \/ /\ enrichFunc = "convertToModelCard"
          /\ tgt \in {wrap_as_cdx(s) : s \in SeqsOf(DriverComponents, 0, MaxTargets)}
          /\ inc \in {wrap_as_element(s) : s \in SeqsOf(DriverElements, 0, MaxIncoming)}
          /\ generalMap = EmptyDict /\ aiMap = EmptyDict /\ now = None
       \/ /\ enrichFunc = "mergeModelCards"
          /\ tgt \in {wrap_as_cdx(s) : s \in SeqsOf(DriverComponents, 0, MaxTargets)}
          /\ inc \in {wrap_as_cdx(s) : s \in SeqsOf(IncomingComponents, 0, MaxIncoming)}
          /\ generalMap = EmptyDict /\ aiMap = EmptyDict /\ now = None
       \/ /\ enrichFunc = "enrichPackage"
          /\ tgt \in {wrap_as_spdx(s) : s \in SeqsOf(DriverPackages, 0, MaxTargets)}
          /\ inc \in {wrap_as_cdx(s) : s \in SeqsOf(IncomingComponents, 0, MaxIncoming)}
          /\ generalMap \in GeneralTables /\ aiMap \in AITables /\ now \in Clocks

GeneralEnrichCall ==
    /\ pc = "start"
    /\ op = "general_enrich"
    /\ LET r == general_enrich(enrichFunc, Self, tgt, inc)
       IN  Finish(r) /\ calls' = r.calls

NextDriver == GeneralEnrichCall

SpecDriver == InitDriver /\ [][NextDriver]_vars

-----------------------------------------------------------------------------
(* Inputs of enrich: whole documents *)

Tools == {[name |-> "syft"], [name |-> "aibom"]}

Creators == {"Tool: syft", "Organization: acme"}

\* a document's collection under key: empty, or one record of S
Present(key, S) == {key :> <<>>} \cup {key :> <<x>> : x \in S}

\* the same, or no such key
Collections(key, S) == {EmptyDict} \cup Present(key, S)

CycloneDXHeads ==
    {[bomFormat |-> "CycloneDX", metadata |-> [tools |-> [components |-> ts]]] :
        ts \in SeqsOf(Tools, 0, MaxTools)}

\* enrich reads a CycloneDX target's components with target_sbom["components"]
CycloneDXTargets ==
    {h @@ c : h \in CycloneDXHeads, c \in Present("components", DriverComponents)}

CycloneDXDocuments ==
    {h @@ c : h \in CycloneDXHeads, c \in Collections("components", IncomingComponents)}

SPDXDocuments ==
    {[spdxVersion |-> "SPDX-2.3", creationInfo |-> [creators |-> cs]] @@ c :
        cs \in SeqsOf(Creators, 0, MaxTools),
        c \in Collections("packages", DriverPackages)}

JSONDocuments ==
    {[x |-> "1"]} \cup ({"components" :> <<>>} \cup
                        {"components" :> <<e>> : e \in DriverElements})

InitEnrich ==
    /\ Idle
    /\ op = "enrich"
    /\ enrichFunc = None
    /\ tgt \in CycloneDXTargets \cup SPDXDocuments
    /\ inc \in CycloneDXDocuments \cup SPDXDocuments \cup JSONDocuments
    /\ generalMap \in GeneralTables
    /\ aiMap \in AITables
    /\ now \in Clocks

\* enrich_sbom with a CycloneDX target
CycloneDXEnrich ==
    /\ pc = "start"
    /\ op = "enrich"
    /\ _create_enricher(tgt) = "CycloneDXEnricher"
    /\ LET r == CycloneDXEnricher_enrich(Self, tgt, inc)
       IN  Finish(r) /\ calls' = r.calls

\* enrich_sbom with any other target
SPDXEnrich ==
    /\ pc = "start"
    /\ op = "enrich"
    /\ _create_enricher(tgt) = "SPDXEnricher"
    /\ LET r == SPDXEnricher_enrich(Self, tgt, inc)
       IN  Finish(r) /\ calls' = r.calls

NextEnrich == CycloneDXEnrich \/ SPDXEnrich

SpecEnrich == InitEnrich /\ [][NextEnrich]_vars

-----------------------------------------------------------------------------
(* Properties *)

Done == pc = "done"
Returned == pc = "done" /\ raised = "none"

\* the incoming component carries a model card with a property list
HasProperties == "modelCard" \in DOMAIN inc /\ "properties" \in DOMAIN inc.modelCard
IncomingProperties == IF HasProperties THEN inc.modelCard.properties ELSE <<>>

AnnotationsOf(package) ==
    IF "annotations" \in DOMAIN package THEN package.annotations ELSE <<>>

\* C1: enrichPackage leaves every native field F the package already defines as
\* it was, for every incoming property whose name the general table maps to F,
\* also when the property's name is not F.
C1_NativeFieldPrecedence ==
    (Returned /\ op = "enrichPackage") =>
        \A i \in Indices(IncomingProperties) :
            LET F == getFieldName(generalMap, IncomingProperties[i].name)
            IN  (F # None /\ F \in DOMAIN tgt) =>
                    (F \in DOMAIN after /\ after[F] = tgt[F])

CardProps(component) ==
    IF "modelCard" \in DOMAIN component /\ "properties" \in DOMAIN component.modelCard
    THEN component.modelCard.properties
    ELSE <<>>

NamesOf(properties) == {properties[k].name : k \in Indices(properties)}

\* C2: when both components carry a modelCard, mergeModelCards leaves the target
\* with its original properties followed by exactly the incoming properties whose
\* name is not among the target's original property names.
C2_PropertiesExtendedByName ==
    (Returned /\ op = "mergeModelCards"
        /\ "modelCard" \in DOMAIN tgt /\ "modelCard" \in DOMAIN inc) =>
        CardProps(after) =
            CardProps(tgt) \o
            SelectSeq(CardProps(inc), LAMBDA q : q.name \notin NamesOf(CardProps(tgt)))

Resolvable(item) == purl(item) # NoneObj

RECURSIVE ResolvableOnly(_)
ResolvableOnly(items) ==
    IF items = <<>> THEN <<>>
    ELSE IF Resolvable(Head(items))
    THEN <<Head(items)>> \o ResolvableOnly(Tail(items))
    ELSE ResolvableOnly(Tail(items))

\* the position target i has once the unresolvable targets are left out
Rank(i) == Cardinality({k \in 1..i : Resolvable(tgt[k])})

\* C3: an element without a resolvable purl is skipped: general_enrich does not
\* raise over it, leaves such a target as it is, and treats the other elements
\* as it would with that element absent.
C3_UnresolvableSkipped ==
    (Done /\ op = "general_enrich"
        /\ \E it \in {tgt[i] : i \in Indices(tgt)} \cup {inc[j] : j \in Indices(inc)} :
               ~Resolvable(it)) =>
        LET g == general_enrich(enrichFunc, Self, ResolvableOnly(tgt), ResolvableOnly(inc))
        IN  /\ raised # "AttributeError"
            /\ raised = g.raised
            /\ \A i \in Indices(tgt) :
                   IF Resolvable(tgt[i])
                   THEN after[i] = g.target[Rank(i)]
                   ELSE after[i] = unwrap(tgt[i])

FailsBothDetectors(sbom) == _detect_sbom_type(sbom).raised = "ValueError"

\* C4: an incoming document that fails both schema detectors is absorbed as
\* generic JSON: enrich raises nothing and returns the target document, and in a
\* CycloneDX target every matched component carries a model card.
C4_MalformedIncomingAbsorbed ==
    (Done /\ op = "enrich" /\ FailsBothDetectors(inc)) =>
        /\ raised = "none"
        /\ ret = after
        /\ _detect_sbom_type(tgt).type = "cyclonedx" =>
               \A k \in Indices(calls) :
                   "modelCard" \in DOMAIN after.components[calls[k][1]]

\* two purls that agree on everything but the version
SamePackage(p, q) ==
    /\ p # NoneObj
    /\ q # NoneObj
    /\ p.type = q.type
    /\ p.namespace = q.namespace
    /\ p.name = q.name
    /\ p.qualifiers = q.qualifiers
    /\ p.subpath = q.subpath

Matches(i, j) == SamePackage(purl(tgt[i]), purl(inc[j]))

Called == {calls[k] : k \in Indices(calls)}

\* C5 as stated: after general_enrich returned, the merge function has been called
\* with (t, e) for every target t and incoming e whose purls differ at most in
\* the version, and not at all for an e that agrees with no target.
C5_EveryAgreeingPairMerged ==
    (Returned /\ op = "general_enrich") =>
        /\ \A i \in Indices(tgt), j \in Indices(inc) :
               Matches(i, j) => <<i, j>> \in Called
        /\ \A j \in Indices(inc) :
               (\A i \in Indices(tgt) : ~Matches(i, j)) =>
                   (\A i \in Indices(tgt) : <<i, j>> \notin Called)

\* the last target that agrees with incoming j
LastMatch(j) == Max({i \in Indices(tgt) : Matches(i, j)})

RECURSIVE ExpectedCalls(_)
ExpectedCalls(j) ==
    IF j = 0 THEN <<>>
    ELSE IF \E i \in Indices(tgt) : Matches(i, j)
    THEN Append(ExpectedCalls(j - 1), <<LastMatch(j), j>>)
    ELSE ExpectedCalls(j - 1)

\* C5 amended: every call of the merge function pairs an incoming e with the
\* LAST target whose purl differs from e's at most in the version; when
\* general_enrich returns it has made that call once for each incoming e that has
\* such a target, in incoming order, and none for an e that agrees with no target.
C5_LastAgreeingTargetMerged ==
    (Done /\ op = "general_enrich") =>
        /\ \A c \in Called : Matches(c[1], c[2]) /\ c[1] = LastMatch(c[2])
        /\ raised = "none" => calls = ExpectedCalls(Len(inc))

\* C5 witness: a returned call that merged an incoming element into the second of
\* two targets of the same package, the versions differing, and left another
\* incoming element unmatched.
C5_Witness ==
    /\ Returned /\ op = "general_enrich"
    /\ \E c \in Called :
           /\ purl(tgt[c[1]]).version # purl(inc[c[2]]).version
           /\ \E i \in 1..(c[1] - 1) : Matches(i, c[2])
    /\ \E j \in Indices(inc) : \A i \in Indices(tgt) : ~Matches(i, j)

\* C6: the collection general_enrich returns is as long as the target collection
\* and holds, at every position no incoming element matches, the target's
\* original record.
C6_NoComponentAddedOrRemoved ==
    (Returned /\ op = "general_enrich") =>
        /\ Len(ret) = Len(tgt)
        /\ \A i \in Indices(tgt) :
               (\A j \in Indices(inc) : ~Matches(i, j)) => ret[i] = unwrap(tgt[i])

\* C6 witness: two targets, one matched by two incoming elements and changed, the
\* other matched by none, and a third incoming element that matches no target.
C6_Witness ==
    /\ Returned /\ op = "general_enrich"
    /\ Len(tgt) = 2
    /\ \E i \in Indices(tgt) :
           /\ Cardinality({j \in Indices(inc) : <<i, j>> \in Called}) = 2
           /\ ret[i] # unwrap(tgt[i])
    /\ \E i \in Indices(tgt) : \A j \in Indices(inc) : ~Matches(i, j)
    /\ \E j \in Indices(inc) : \A i \in Indices(tgt) : ~Matches(i, j)

IncomingTools == inc.metadata.tools.components

\* C7: after enrich returned for a CycloneDX incoming document, the target's
\* provenance list is its original list followed by one entry per incoming
\* tool, in order and without deduplication: the tool itself in
\* metadata.tools.components, the string "Tool: <name>" in creationInfo.creators.
C7_ToolListAppended ==
    (Returned /\ op = "enrich" /\ _detect_sbom_type(inc).type = "cyclonedx") =>
        IF _detect_sbom_type(tgt).type = "cyclonedx"
        THEN after.metadata.tools.components =
                 tgt.metadata.tools.components \o IncomingTools
        ELSE /\ Len(after.creationInfo.creators) =
                    Len(tgt.creationInfo.creators) + Len(IncomingTools)
             /\ \A k \in Indices(tgt.creationInfo.creators) :
                    after.creationInfo.creators[k] = tgt.creationInfo.creators[k]
             /\ \A k \in Indices(IncomingTools) :
                    after.creationInfo.creators[Len(tgt.creationInfo.creators) + k] =
                        "Tool: " \o IncomingTools[k].name

\* C7 witness: an SPDX target that already lists "Tool: syft" was enriched with a
\* CycloneDX document whose two tools include syft.
C7_Witness ==
    /\ Returned /\ op = "enrich"
    /\ _detect_sbom_type(tgt).type = "spdx"
    /\ _detect_sbom_type(inc).type = "cyclonedx"
    /\ \E k \in Indices(tgt.creationInfo.creators) :
           tgt.creationInfo.creators[k] = "Tool: syft"
    /\ Len(IncomingTools) = 2
    /\ \E k \in Indices(IncomingTools) : IncomingTools[k].name = "syft"
    /\ Len(after.creationInfo.creators) = Len(tgt.creationInfo.creators) + 2

Unmapped(n) ==
    n \notin DOMAIN generalMap /\ n \notin DOMAIN aiMap /\ n \notin prefer_original

\* C8: when every incoming property is unmapped (in neither table, not excluded)
\* enrichPackage returns without raising and the package is as it was, whether or
\* not it has an annotations key.
C8_UnmappedFieldsChangeNothing ==
    (Done /\ op = "enrichPackage" /\ HasProperties
        /\ \A i \in Indices(IncomingProperties) : Unmapped(IncomingProperties[i].name)) =>
        /\ raised = "none"
        /\ after = tgt
        /\ ret = tgt

\* C9: mergeModelCards returns a record and raises nothing for every pair of
\* components; a target without a modelCard gets the incoming one.
C9_MergerTotal ==
    (Done /\ op = "mergeModelCards") =>
        /\ raised = "none"
        /\ ("modelCard" \notin DOMAIN tgt /\ "modelCard" \in DOMAIN inc) =>
               ("modelCard" \in DOMAIN ret /\ ret.modelCard = inc.modelCard)

\* the incoming properties that are to become annotations: not excluded, not in
\* the general table, in the AI table
AnnotatedProperties ==
    SelectSeq(IncomingProperties,
              LAMBDA f : /\ f.name \notin prefer_original
                         /\ f.name \notin DOMAIN generalMap
                         /\ f.name \in DOMAIN aiMap)

\* C10: the annotations enrichPackage appends are, in order, one per incoming
\* property that is not excluded, not in the general table and in the AI table,
\* with comment "<mapped name> : <value>", after the annotations the package had.
C10_AnnotationsFromAITableOnly ==
    (Done /\ op = "enrichPackage" /\ HasProperties) =>
        LET before == AnnotationsOf(tgt)
            now_ == AnnotationsOf(after)
        IN  /\ Len(now_) = Len(before) + Len(AnnotatedProperties)
            /\ SubSeq(now_, 1, Len(before)) = before
            /\ \A k \in Indices(AnnotatedProperties) :
                   now_[Len(before) + k].comment =
                       aiMap[AnnotatedProperties[k].name] \o " : " \o
                       AnnotatedProperties[k].value

====
